---- MODULE Spec2Model ----
(***************************************************************************)
(* Model of scripts/dialent/standard.py: the Standard document loader.     *)
(*                                                                         *)
(* A string is a sequence of atoms.  The delimiter, the separator, the     *)
(* comment marker and the white-space characters are atoms of their own;   *)
(* a decimal digit is an atom; any other atom ("org", "w", ...) stands for *)
(* a run of ordinary characters.  Files are sequences of raw lines, each   *)
(* line keeping its terminator as Python's file iteration does.            *)
(***************************************************************************)
EXTENDS Integers, Sequences, FiniteSets, TLC

\* ------------------------------------------------------------------ bounds
MaxTokLines == 3
MaxStart == 2
MaxSpanLines == 2
MaxMentionLines == 2
MaxCorefLines == 4

\* ------------------------------------------------------- characters, Config
NL == "\n"
CR == "\r"
TAB == "\t"
SP == " "
DEFAULT_DELIMITER == " "
SPAN_FILE_SEPARATOR == "#"
COMMENT_SEPARATOR == "#"
TOKEN_LINE_LENGTH == 4

Digits == <<"0", "1", "2", "3", "4", "5", "6", "7", "8", "9">>
IsDigit(c) == \E d \in 1..10 : Digits[d] = c
DigitVal(c) == (CHOOSE d \in 1..10 : Digits[d] = c) - 1

None == 0

\* ------------------------------------------------------ Python primitives
\* str.split(sep): the pieces between occurrences of sep, empty ones kept.
RECURSIVE Split(_, _)
Split(s, sep) ==
    IF \A i \in 1..Len(s) : s[i] # sep
    THEN <<s>>
    ELSE LET k == CHOOSE i \in 1..Len(s) :
                      s[i] = sep /\ \A j \in 1..(i-1) : s[j] # sep
         IN  <<SubSeq(s, 1, k-1)>> \o Split(SubSeq(s, k+1, Len(s)), sep)

\* [i for i in parts if len(i) > 0]
RECURSIVE NonEmpty(_)
NonEmpty(parts) ==
    IF parts = <<>> THEN <<>>
    ELSE IF Len(Head(parts)) > 0
         THEN <<Head(parts)>> \o NonEmpty(Tail(parts))
         ELSE NonEmpty(Tail(parts))

\* str.strip(chars): leading and trailing characters of the set removed.
RECURSIVE LStrip(_, _)
LStrip(s, chars) ==
    IF s # <<>> /\ Head(s) \in chars THEN LStrip(Tail(s), chars) ELSE s

RECURSIVE RStrip(_, _)
RStrip(s, chars) ==
    IF s # <<>> /\ s[Len(s)] \in chars
    THEN RStrip(SubSeq(s, 1, Len(s)-1), chars)
    ELSE s

Strip(s, chars) == RStrip(LStrip(s, chars), chars)

Whitespace == {SP, TAB, NL, CR}

\* int(s): white space around the digits is ignored; anything else raises.
IntOK(s) ==
    LET t == Strip(s, Whitespace)
    IN  t # <<>> /\ \A i \in 1..Len(t) : IsDigit(t[i])

RECURSIVE DigitsValue(_)
DigitsValue(t) ==
    IF t = <<>> THEN 0
    ELSE 10 * DigitsValue(SubSeq(t, 1, Len(t)-1)) + DigitVal(t[Len(t)])

IntParse(s) == DigitsValue(Strip(s, Whitespace))

\* ' '.join(words)
RECURSIVE Join(_, _)
Join(words, sep) ==
    IF words = <<>> THEN <<>>
    ELSE IF Len(words) = 1 THEN Head(words)
         ELSE Head(words) \o <<sep>> \o Join(Tail(words), sep)

\* str.replace(c, '')
RECURSIVE Remove(_, _)
Remove(s, c) ==
    IF s = <<>> THEN <<>>
    ELSE IF Head(s) = c THEN Remove(Tail(s), c)
         ELSE <<Head(s)>> \o Remove(Tail(s), c)

\* ''.join(lines)
RECURSIVE Concat(_)
Concat(lines) ==
    IF lines = <<>> THEN <<>> ELSE Head(lines) \o Concat(Tail(lines))

\* csv.reader: one row per line, the terminator dropped; a blank line is [].
CsvRow(line, delim) ==
    LET body == RStrip(line, {NL, CR})
    IN  IF body = <<>> THEN <<>> ELSE Split(body, delim)

\* dict([(key(x), x) for x in items]): a later item replaces an earlier one.
LastIndex(ids, k) ==
    CHOOSE i \in 1..Len(ids) : ids[i] = k /\ \A j \in (i+1)..Len(ids) : ids[j] # k

Range(s) == {s[i] : i \in 1..Len(s)}

\* --------------------------------------------------------------- Token
\* Token(id, start, length, text): numeric fields converted with int().
TokenOK(row) == IntOK(row[1]) /\ IntOK(row[2]) /\ IntOK(row[3])

Token(oid, row) ==
    [oid |-> oid, id |-> IntParse(row[1]), start |-> IntParse(row[2]),
     length |-> IntParse(row[3]), text |-> row[4],
     prev |-> None, next |-> None]

\* sorted(tokens, key=lambda x: x.start): stable.
RECURSIVE InsertByStart(_, _)
InsertByStart(sorted, t) ==
    IF sorted = <<>> THEN <<t>>
    ELSE IF sorted[Len(sorted)].start <= t.start
         THEN Append(sorted, t)
         ELSE Append(InsertByStart(SubSeq(sorted, 1, Len(sorted)-1), t),
                     sorted[Len(sorted)])

RECURSIVE SortByStartFrom(_, _)
SortByStartFrom(acc, rest) ==
    IF rest = <<>> THEN acc
    ELSE SortByStartFrom(InsertByStart(acc, Head(rest)), Tail(rest))

\* Variant: the tokens left in file order.
SortByStartUnsorted(toks) == toks

\* self.tokens = sorted(self.tokens, key=lambda x: x.start)
SortByStart(toks) == SortByStartFrom(<<>>, toks)

\* for i, token in enumerate(self.tokens): set prev / next.
LinkNeighbours(toks) ==
    [i \in 1..Len(toks) |->
        [toks[i] EXCEPT
            !.prev = IF i # 1 THEN toks[i-1].oid ELSE @,
            !.next = IF i # Len(toks) THEN toks[i+1].oid ELSE @]]

\* The reading loop of loadTokens: acc holds the tokens appended so far.
RECURSIVE ReadTokens(_, _, _)
ReadTokens(lines, index, acc) ==
    IF index > Len(lines) THEN [raised |-> "none", items |-> acc]
    ELSE LET row == CsvRow(lines[index], DEFAULT_DELIMITER)
         IN  IF Len(row) = 0 THEN ReadTokens(lines, index + 1, acc)
             ELSE IF Len(row) # TOKEN_LINE_LENGTH
                  THEN [raised |-> "Exception", items |-> acc]
                  ELSE IF ~TokenOK(row)
                       THEN [raised |-> "ValueError", items |-> acc]
                       ELSE ReadTokens(lines, index + 1,
                                       Append(acc, Token(index, row)))

EmptyDict == [k \in {} |-> None]

MakeDict(items) ==
    LET ids == [i \in 1..Len(items) |-> items[i].id]
    IN  [k \in Range(ids) |-> items[LastIndex(ids, k)]]

\* loadTokens(filename): what it leaves in self.tokens and self._token_dict.
loadTokens(file) ==
    IF ~file.present
    THEN [raised |-> "FileNotFoundError", tokens |-> <<>>,
          dictSet |-> FALSE, dict |-> EmptyDict]
    ELSE LET r == ReadTokens(file.lines, 1, <<>>)
         IN  IF r.raised # "none"
             THEN [raised |-> r.raised, tokens |-> r.items,
                   dictSet |-> FALSE, dict |-> EmptyDict]
             ELSE LET d == MakeDict(r.items)
                  IN  [raised |-> "none",
                       tokens |-> LinkNeighbours(SortByStart(r.items)),
                       dictSet |-> TRUE,
                       dict |-> [k \in DOMAIN d |-> d[k].oid]]

\* ---------------------------------------------------------------- Span
\* Span(id, tag, start, nchars, token_start, ntokens): six positional fields,
\* the numeric ones converted with int().
SpanArgsOK(fl) == Len(fl) = 6
SpanIntsOK(fl) ==
    IntOK(fl[1]) /\ IntOK(fl[3]) /\ IntOK(fl[4]) /\ IntOK(fl[5]) /\ IntOK(fl[6])

Span(oid, fl) ==
    [oid |-> oid, id |-> IntParse(fl[1]), tag |-> fl[2],
     start |-> IntParse(fl[3]), nchars |-> IntParse(fl[4]),
     token_start |-> IntParse(fl[5]), ntokens |-> IntParse(fl[6]),
     tokens |-> <<>>, text |-> <<>>]

\* len(line) == 0: the test that guards "skip the empty lines".
IsEmptyLine(line) == Len(line) = 0

\* Variant: only too short a right section is refused.
RightLengthAtLeast(filtered_right, ntokens) == Len(filtered_right) >= 2 * ntokens

\* len(filtered_right) != 2*new_span.ntokens, negated.
RightLengthOK(filtered_right, ntokens) == Len(filtered_right) = 2 * ntokens

\* The reading loop of loadSpans: acc holds the spans appended so far.
RECURSIVE ReadSpans(_, _, _, _)
ReadSpans(lines, index, acc, token_dict) ==
    IF index > Len(lines) THEN [raised |-> "none", items |-> acc]
    ELSE
    LET line == lines[index]
        parts == Split(line, SPAN_FILE_SEPARATOR)
        fail(e) == [raised |-> e, items |-> acc]
    IN
    IF IsEmptyLine(line) THEN ReadSpans(lines, index + 1, acc, token_dict)
    ELSE IF Len(parts) # 2 THEN fail("Exception")
    ELSE
    LET filtered_left == NonEmpty(Split(parts[1], DEFAULT_DELIMITER))
        filtered_right == NonEmpty(Split(parts[2], DEFAULT_DELIMITER))
    IN
    IF Len(filtered_left) < 6 THEN fail("Exception")
    ELSE IF ~SpanArgsOK(filtered_left) THEN fail("TypeError")
    ELSE IF ~SpanIntsOK(filtered_left) THEN fail("ValueError")
    ELSE
    LET new_span == Span(index, filtered_left)
        n == new_span.ntokens
        id_words == SubSeq(filtered_right, 1, n)
        text_words == SubSeq(filtered_right, n + 1, Len(filtered_right))
    IN
    IF ~RightLengthOK(filtered_right, n) THEN fail("Exception")
    ELSE IF \E i \in 1..n : ~IntOK(id_words[i]) THEN fail("ValueError")
    ELSE
    LET token_ids == [i \in 1..n |-> IntParse(id_words[i])]
    IN
    IF \E i \in 1..n : token_ids[i] \notin DOMAIN token_dict
    THEN fail("KeyError")
    ELSE ReadSpans(lines, index + 1,
            Append(acc,
                [new_span EXCEPT
                    !.tokens = [i \in 1..n |-> token_dict[token_ids[i]]],
                    !.text = Remove(Join(text_words, SP), NL)]),
            token_dict)

\* loadSpans(filename): what it leaves in self.spans and self._span_dict.
loadSpans(file, token_dict) ==
    IF ~file.present
    THEN [raised |-> "FileNotFoundError", spans |-> <<>>,
          dictSet |-> FALSE, dict |-> EmptyDict]
    ELSE LET r == ReadSpans(file.lines, 1, <<>>, token_dict)
         IN  IF r.raised # "none"
             THEN [raised |-> r.raised, spans |-> r.items,
                   dictSet |-> FALSE, dict |-> EmptyDict]
             ELSE [raised |-> "none", spans |-> r.items,
                   dictSet |-> TRUE, dict |-> MakeDict(r.items)]

\* -------------------------------------------------------------- Mention
\* Mention(id, tag, span_ids, span_dict): the tag is kept as given, the span
\* ids are looked up in the span dictionary.
Mention(oid, id, tag, span_indices, span_dict) ==
    [oid |-> oid, id |-> id, tag |-> tag,
     spans |-> [i \in 1..Len(span_indices) |-> span_dict[span_indices[i]]]]

\* line[:line.index(COMMENT_SEPARATOR)] when the marker is one of the fields.
CutComment(row) ==
    IF \E i \in 1..Len(row) : row[i] = <<COMMENT_SEPARATOR>>
    THEN LET k == CHOOSE i \in 1..Len(row) :
                      /\ row[i] = <<COMMENT_SEPARATOR>>
                      /\ \A j \in 1..(i-1) : row[j] # <<COMMENT_SEPARATOR>>
         IN  SubSeq(row, 1, k - 1)
    ELSE row

\* The reading loop of loadMentions: acc holds the mentions appended so far.
RECURSIVE ReadMentions(_, _, _, _)
ReadMentions(lines, index, acc, span_dict) ==
    IF index > Len(lines) THEN [raised |-> "none", items |-> acc]
    ELSE
    LET line == CutComment(CsvRow(lines[index], SP))
        fail(e) == [raised |-> e, items |-> acc]
    IN
    IF Len(line) = 0 THEN ReadMentions(lines, index + 1, acc, span_dict)
    ELSE IF Len(line) <= 2 THEN fail("Exception")
    ELSE IF \E i \in (1..Len(line)) \ {2} : ~IntOK(line[i])
         THEN fail("Exception")
    ELSE
    LET mention_id == IntParse(line[1])
        span_indices == [i \in 1..(Len(line) - 2) |-> IntParse(line[i + 2])]
    IN
    IF \E i \in 1..Len(span_indices) : span_indices[i] \notin DOMAIN span_dict
    THEN fail("KeyError")
    ELSE ReadMentions(lines, index + 1,
            Append(acc, Mention(index, mention_id, line[2], span_indices,
                                span_dict)),
            span_dict)

\* loadMentions(filename): what it leaves in self.mentions and
\* self._mention_dict.
loadMentions(file, span_dict) ==
    IF ~file.present
    THEN [raised |-> "FileNotFoundError", mentions |-> <<>>,
          dictSet |-> FALSE, dict |-> EmptyDict]
    ELSE LET r == ReadMentions(file.lines, 1, <<>>, span_dict)
         IN  IF r.raised # "none"
             THEN [raised |-> r.raised, mentions |-> r.items,
                   dictSet |-> FALSE, dict |-> EmptyDict]
             ELSE [raised |-> "none", mentions |-> r.items,
                   dictSet |-> TRUE, dict |-> MakeDict(r.items)]

\* --------------------------------------------------------------- Entity
\* Entity.fromStandard(buffer, mention_dict, span_dict): every line of the
\* buffer is a mention id, looked up in the mention dictionary.
BufferLines(buffer) == NonEmpty(Split(buffer, NL))

FromStandardOK(buffer, mention_dict) ==
    \A i \in 1..Len(BufferLines(buffer)) :
        /\ IntOK(BufferLines(buffer)[i])
        /\ IntParse(BufferLines(buffer)[i]) \in DOMAIN mention_dict

FromStandard(buffer, mention_dict) ==
    [mode |-> "standard", buffer |-> buffer,
     mentions |-> [i \in 1..Len(BufferLines(buffer)) |->
                      mention_dict[IntParse(BufferLines(buffer)[i])].id]]

\* Entity.fromTest(buffer): the buffer kept unresolved.
FromTest(buffer) == [mode |-> "test", buffer |-> buffer, mentions |-> <<>>]

\* Variant: the raw line tested without trimming.
StripLineUntrimmed(raw_line) == raw_line

\* raw_line.strip(' \t\n\r')
StripLine(raw_line) == Strip(raw_line, Whitespace)

\* The reading loop of loadCoreference, end-of-file handling included.
RECURSIVE ReadCoreference(_, _, _, _, _)
ReadCoreference(lines, index, buffer, acc, mention_dict) ==
    IF index > Len(lines)
    THEN IF Len(buffer) > 0
         THEN [raised |-> "none", items |-> Append(acc, FromTest(buffer))]
         ELSE [raised |-> "none", items |-> acc]
    ELSE
    LET line == StripLine(lines[index])
    IN
    IF Len(line) = 0
    THEN IF Len(buffer) > 0
         THEN IF ~FromStandardOK(buffer, mention_dict)
              THEN [raised |-> "KeyError", items |-> acc]
              ELSE ReadCoreference(lines, index + 1, <<>>,
                       Append(acc, FromStandard(buffer, mention_dict)),
                       mention_dict)
         ELSE ReadCoreference(lines, index + 1, buffer, acc, mention_dict)
    ELSE ReadCoreference(lines, index + 1, buffer \o line \o <<NL>>, acc,
                         mention_dict)

\* The handles loadCoreference opens: the probing open() of the try block,
\* whose result is bound to nothing, and the one of the with statement.
CorefProbeHandle == "coref#probe"
CorefWithHandle == "coref#with"

\* Variant: a file that cannot be opened is an error like any other.
loadCoreferenceMissingRaises(file, mention_dict) ==
    IF ~file.present
    THEN [raised |-> "FileNotFoundError", entities |-> <<>>, probed |-> FALSE]
    ELSE LET r == ReadCoreference(file.lines, 1, <<>>, <<>>, mention_dict)
         IN  [raised |-> r.raised, entities |-> r.items, probed |-> TRUE]

\* loadCoreference(filename): what it leaves in self.entities; probed tells
\* whether the probing open() returned a handle.
loadCoreference(file, mention_dict) ==
    IF ~file.present
    THEN [raised |-> "none", entities |-> <<>>, probed |-> FALSE]
    ELSE LET r == ReadCoreference(file.lines, 1, <<>>, <<>>, mention_dict)
         IN  [raised |-> r.raised, entities |-> r.items, probed |-> TRUE]

\* ----------------------------------------------------------------- text
\* loadText(filename)
loadText(file) ==
    IF ~file.present
    THEN [raised |-> "FileNotFoundError", text |-> <<>>]
    ELSE [raised |-> "none", text |-> Concat(file.lines)]

\* -------------------------------------------------------- makeTokenSets
ORG == <<"org">>
PER == <<"per">>
LOC == <<"loc">>
LOCORG == <<"locorg">>

\* Variant: 'locorg' allowed whatever the flag.
allowed_tagsAlwaysLocorg(is_locorg_allowed) == {ORG, PER, LOC, LOCORG}

\* allowed_tags = set(['org', 'per', 'loc']) (+ 'locorg' when allowed)
allowed_tags(is_locorg_allowed) ==
    {ORG, PER, LOC} \cup (IF is_locorg_allowed THEN {LOCORG} ELSE {})

\* key = mention.tag; if key == 'locorg' and not is_locorg_allowed: key = 'loc'
ResolveKey(tag, is_locorg_allowed) ==
    IF tag = LOCORG /\ ~is_locorg_allowed THEN LOC ELSE tag

\* Tables.getMark(set tag, span tag): the table entry of the pair.
getMark(ts_tag, span_tag) == <<ts_tag, span_tag>>

\* [x for span in mention.spans for x in span.tokens]
RECURSIVE MentionTokens(_)
MentionTokens(spans) ==
    IF spans = <<>> THEN <<>>
    ELSE Head(spans).tokens \o MentionTokens(Tail(spans))

\* TokenSet(tokens, tag) followed by the setMark loop: a token covered by
\* several spans keeps the mark of the last one.
TokenSet(mention, key) ==
    LET toks == MentionTokens(mention.spans)
        lastSpan(t) == CHOOSE i \in 1..Len(mention.spans) :
                          /\ t \in Range(mention.spans[i].tokens)
                          /\ \A j \in (i+1)..Len(mention.spans) :
                                 t \notin Range(mention.spans[j].tokens)
    IN  [tokens |-> toks, tag |-> key, parent |-> None,
         marks |-> [t \in Range(toks) |->
                       getMark(key, mention.spans[lastSpan(t)].tag)]]

\* The loop over self.mentions: res maps each allowed tag to its sets.
RECURSIVE BuildSets(_, _, _, _)
BuildSets(ms, index, res, is_locorg_allowed) ==
    IF index > Len(ms) THEN [raised |-> "none", res |-> res]
    ELSE LET key == ResolveKey(ms[index].tag, is_locorg_allowed)
         IN  IF key \notin allowed_tags(is_locorg_allowed)
             THEN [raised |-> "AssertionError", res |-> res]
             ELSE BuildSets(ms, index + 1,
                    [res EXCEPT ![key] = Append(@, TokenSet(ms[index], key))],
                    is_locorg_allowed)

\* TokenSet.findParents(all_orgs): the first other set of the list whose
\* tokens strictly contain this set's tokens becomes its parent (an index
\* into all_orgs).
findParents(all_orgs, i) ==
    LET inside(j) == /\ j # i
                     /\ Range(all_orgs[i].tokens) \subseteq Range(all_orgs[j].tokens)
                     /\ Range(all_orgs[i].tokens) # Range(all_orgs[j].tokens)
    IN  IF \E j \in 1..Len(all_orgs) : inside(j)
        THEN CHOOSE j \in 1..Len(all_orgs) :
                 inside(j) /\ \A k \in 1..(j-1) : ~inside(k)
        ELSE None

\* makeTokenSets(is_locorg_allowed)
makeTokenSets(ms, is_locorg_allowed) ==
    LET built == BuildSets(ms, 1,
                     [x \in allowed_tags(is_locorg_allowed) |-> <<>>],
                     is_locorg_allowed)
    IN
    IF built.raised # "none" THEN [raised |-> built.raised, res |-> EmptyDict]
    ELSE
    LET res == built.res
        all_orgs == res[ORG] \o (IF is_locorg_allowed THEN res[LOCORG] ELSE <<>>)
        norg == Len(res[ORG])
        withParent(k, base) ==
            [i \in 1..Len(res[k]) |->
                [res[k][i] EXCEPT !.parent = findParents(all_orgs, base + i)]]
    IN  [raised |-> "none",
         res |-> [x \in DOMAIN res |->
                    IF x = ORG THEN withParent(ORG, 0)
                    ELSE IF x = LOCORG /\ is_locorg_allowed
                         THEN withParent(LOCORG, norg)
                         ELSE res[x]]]

\* ------------------------------------------------------ export files
\* str(n) of a natural number.
RECURSIVE Str(_)
Str(n) ==
    IF n < 10 THEN <<Digits[n + 1]>>
    ELSE Str(n \div 10) \o <<Digits[(n % 10) + 1]>>

StrAll(ns) == [i \in 1..Len(ns) |-> Str(ns[i])]
Words(n) == [i \in 1..n |-> <<"w">>]
File(lines) == [present |-> TRUE, lines |-> lines]
Missing == [present |-> FALSE, lines |-> <<>>]
SeqsUpTo(S, n) == UNION {[1..k -> S] : k \in 0..n}

\* A file whose last line has no terminator (never an empty last line).
DropLastNL(lines) ==
    [i \in 1..Len(lines) |->
        IF i = Len(lines) THEN RStrip(lines[i], {NL}) ELSE lines[i]]
WithUnterminated(F) ==
    F \cup {DropLastNL(f) : f \in {g \in F : g # <<>> /\ g[Len(g)] # <<NL>>}}

\* NAME.tokens: <id> <start> <length> <text>
TokenLine(id, start) ==
    Join(<<Str(id), Str(start), Str(1), <<"w">>>>, DEFAULT_DELIMITER) \o <<NL>>
TokenKinds ==
    {<<"good", s>> : s \in 0..MaxStart}
        \cup {<<"dup", 0>>, <<"blank", 0>>, <<"short", 0>>, <<"nonint", 0>>}
TokenLineOf(kind, pos) ==
    CASE kind[1] = "good" -> TokenLine(pos, kind[2])
      [] kind[1] = "dup" -> TokenLine(1, kind[2])
      [] kind[1] = "blank" -> <<NL>>
      [] kind[1] = "short" ->
            Join(<<Str(pos), Str(0), <<"w">>>>, DEFAULT_DELIMITER) \o <<NL>>
      [] OTHER ->
            Join(<<Str(pos), <<"x">>, Str(1), <<"w">>>>, DEFAULT_DELIMITER)
                \o <<NL>>
TokenFiles ==
    {[p \in DOMAIN ks |-> TokenLineOf(ks[p], p)] :
        ks \in SeqsUpTo(TokenKinds, MaxTokLines)}
BaseTokens == <<TokenLine(2, 2), TokenLine(1, 0), TokenLine(3, 4)>>
BadTokens == <<TokenLine(2, 2), TokenLineOf(<<"short", 0>>, 2), TokenLine(3, 4)>>

\* NAME.spans: <id> <tag> <start> <nchars> <start_token> <ntokens> # ids words
SpanLine(left, sep, tids, nwords) ==
    Join(left, DEFAULT_DELIMITER) \o sep
        \o Join(StrAll(tids) \o Words(nwords), DEFAULT_DELIMITER) \o <<NL>>
SpanLeft(id, declared) ==
    <<Str(id), <<"org_name">>, Str(0), Str(1), Str(0), Str(declared)>>
SepText == <<SP, SPAN_FILE_SEPARATOR, SP>>
SpanKinds ==
    {[k |-> "good", declared |-> Len(t), tids |-> t, nwords |-> Len(t)] :
        t \in {<<>>, <<1>>, <<2>>, <<9>>, <<1, 2>>, <<2, 1>>, <<1, 9>>}}
    \cup {[k |-> "good", declared |-> 1, tids |-> <<1, 2>>, nwords |-> 2],
          [k |-> "good", declared |-> 2, tids |-> <<1>>, nwords |-> 1],
          [k |-> "good", declared |-> 1, tids |-> <<1>>, nwords |-> 2]}
    \cup {[k |-> x, declared |-> 1, tids |-> <<1>>, nwords |-> 1] :
            x \in {"nosep", "short", "blank", "badtid", "badnt"}}
SpanLineOf(kind, pos) ==
    CASE kind.k = "good" ->
            SpanLine(SpanLeft(pos, kind.declared), SepText, kind.tids, kind.nwords)
      [] kind.k = "nosep" -> SpanLine(SpanLeft(pos, 1), <<SP>>, <<1>>, 1)
      [] kind.k = "short" ->
            SpanLine(SubSeq(SpanLeft(pos, 1), 1, 5), SepText, <<1>>, 1)
      [] kind.k = "blank" -> <<NL>>
      [] kind.k = "badtid" ->
            Join(SpanLeft(pos, 1), DEFAULT_DELIMITER) \o SepText
                \o <<"x", SP, "w", NL>>
      [] OTHER ->
            Join(SubSeq(SpanLeft(pos, 1), 1, 5) \o <<<<"x">>>>, DEFAULT_DELIMITER)
                \o SepText \o <<"1", SP, "w", NL>>
SpanFiles ==
    WithUnterminated(
        {[p \in DOMAIN ks |-> SpanLineOf(ks[p], p)] :
            ks \in SeqsUpTo(SpanKinds, MaxSpanLines)})
BaseSpans ==
    <<SpanLine(SpanLeft(1, 2), SepText, <<1, 2>>, 2),
      SpanLine(SpanLeft(2, 1), SepText, <<3>>, 1)>>
BadSpans ==
    <<SpanLine(SpanLeft(1, 2), SepText, <<1, 2>>, 2),
      SpanLine(SpanLeft(2, 1), <<SP>>, <<3>>, 1)>>

\* NAME.objects: <object_id> <type> <span_id>+ # <comment>
MentionLine(id, tag, sids, comment) ==
    Join(<<Str(id), <<tag>>>> \o StrAll(sids), SP)
        \o (IF comment THEN <<SP, COMMENT_SEPARATOR, SP, "c">> ELSE <<>>)
        \o <<NL>>
MentionKinds ==
    {[k |-> "good", tag |-> t, sids |-> <<1>>, comment |-> FALSE] :
        t \in {"org", "per", "loc", "locorg", "facility"}}
    \cup {[k |-> "good", tag |-> "org", sids |-> <<1, 2>>, comment |-> FALSE],
          [k |-> "good", tag |-> "org", sids |-> <<9>>, comment |-> FALSE],
          [k |-> "good", tag |-> "org", sids |-> <<2>>, comment |-> TRUE]}
    \cup {[k |-> x, tag |-> "org", sids |-> <<1>>, comment |-> FALSE] :
            x \in {"blank", "comment", "short", "nonint"}}
MentionLineOf(kind, pos) ==
    CASE kind.k = "good" -> MentionLine(pos, kind.tag, kind.sids, kind.comment)
      [] kind.k = "blank" -> <<NL>>
      [] kind.k = "comment" -> <<COMMENT_SEPARATOR, SP, "c", NL>>
      [] kind.k = "short" -> Join(<<Str(pos), <<"org">>>>, SP) \o <<NL>>
      [] OTHER -> Join(<<<<"x">>, <<"org">>, Str(1)>>, SP) \o <<NL>>
MentionFiles ==
    {[p \in DOMAIN ks |-> MentionLineOf(ks[p], p)] :
        ks \in SeqsUpTo(MentionKinds, MaxMentionLines)}
BaseMentions ==
    <<MentionLine(1, "org", <<1>>, FALSE), MentionLine(2, "locorg", <<2>>, TRUE)>>
BadMentions ==
    <<MentionLine(1, "org", <<1>>, FALSE), MentionLineOf(
        [k |-> "short", tag |-> "org", sids |-> <<1>>, comment |-> FALSE], 2)>>

\* NAME.coref: blocks of mention ids separated by blank lines
CorefLines ==
    {<<NL>>, <<SP, TAB, CR, NL>>, <<"1", NL>>, <<SP, "2", SP, NL>>, <<"9", NL>>}
CorefFiles == WithUnterminated(SeqsUpTo(CorefLines, MaxCorefLines))
BaseCoref == <<<<"1", NL>>, <<NL>>, <<"2", NL>>>>
BadCoref == <<<<"1", NL>>, <<NL>>, <<"9", NL>>, <<NL>>>>

BaseText == <<<<"w", SP, "w", NL>>, <<"w", NL>>>>

Doc(t, s, o, c, x) == [tokens |-> t, spans |-> s, objects |-> o, coref |-> c, txt |-> x]
BaseDoc ==
    Doc(File(BaseTokens), File(BaseSpans), File(BaseMentions), File(BaseCoref),
        File(BaseText))
\* The documents loaded: each export file in turn ranges over its bounded
\* set of contents beside the other files of a well-formed document, and
\* every combination of a missing, a well-formed and a malformed file.
Docs ==
    {[BaseDoc EXCEPT !.tokens = File(f)] : f \in TokenFiles}
    \cup {[BaseDoc EXCEPT !.spans = File(f)] : f \in SpanFiles}
    \cup {[BaseDoc EXCEPT !.objects = File(f)] : f \in MentionFiles}
    \cup {[BaseDoc EXCEPT !.coref = File(f)] : f \in CorefFiles}
    \cup {Doc(t, s, o, c, x) :
            t \in {Missing, File(BaseTokens), File(BadTokens)},
            s \in {Missing, File(BaseSpans), File(BadSpans)},
            o \in {Missing, File(BaseMentions), File(BadMentions)},
            c \in {Missing, File(BaseCoref), File(BadCoref)},
            x \in {Missing, File(BaseText)}}

\* ------------------------------------------------------------- the state
VARIABLES doc, pc, attrs, tokens, token_dict, spans, span_dict, mentions,
          mention_dict, entities, text, error, failed, trace, openHandles,
          logged, propagated, result

vars == <<doc, pc, attrs, tokens, token_dict, spans, span_dict, mentions,
          mention_dict, entities, text, error, failed, trace, openHandles,
          logged, propagated, result>>

Stages == <<"tokens", "spans", "mentions", "coreference", "text">>
StageIndex(s) == CHOOSE i \in 1..Len(Stages) : Stages[i] = s

\* The exception classes the handler of __init__ catches (except Exception).
Catches(e) ==
    e \in {"Exception", "ValueError", "KeyError", "TypeError", "FileNotFoundError"}

\* Variant: a stage's exception swallowed, the next statement run.
AfterStageSwallowed(stage, raised) ==
    IF StageIndex(stage) < Len(Stages) THEN Stages[StageIndex(stage) + 1]
    ELSE "name"

\* Where __init__ goes after a stage: the statement after it, or the handler.
AfterStage(stage, raised) ==
    IF raised # "none" THEN "except"
    ELSE IF StageIndex(stage) < Len(Stages) THEN Stages[StageIndex(stage) + 1]
         ELSE "name"

\* A with statement releases its handle on every way out of its body.
WithLeaves(handle) == {}

NoResult == [called |-> FALSE, flag |-> FALSE, raised |-> "none", res |-> EmptyDict]

Init ==
    /\ doc \in Docs
    /\ pc = "tokens"
    /\ attrs = {}
    /\ tokens = <<>> /\ token_dict = EmptyDict
    /\ spans = <<>> /\ span_dict = EmptyDict
    /\ mentions = <<>> /\ mention_dict = EmptyDict
    /\ entities = <<>>
    /\ text = <<>>
    /\ error = "none"
    /\ failed = "none"
    /\ trace = <<>>
    /\ openHandles = {}
    /\ logged = FALSE
    /\ propagated = FALSE
    /\ result = NoResult

\* What every stage does to the control state of __init__.
Step(stage, raised) ==
    /\ pc' = AfterStage(stage, raised)
    /\ error' = raised
    /\ failed' = IF raised # "none" THEN stage ELSE failed
    /\ trace' = Append(trace, stage)
    /\ UNCHANGED <<doc, logged, propagated, result>>

LoadTokens ==
    /\ pc = "tokens"
    /\ LET r == loadTokens(doc.tokens)
       IN  /\ tokens' = r.tokens
           /\ token_dict' = r.dict
           /\ attrs' = attrs \cup {"tokens"}
                          \cup (IF r.dictSet THEN {"_token_dict"} ELSE {})
           /\ openHandles' = openHandles \cup
                  (IF doc.tokens.present THEN WithLeaves("tokens") ELSE {})
           /\ Step("tokens", r.raised)
    /\ UNCHANGED <<spans, span_dict, mentions, mention_dict, entities, text>>

LoadSpans ==
    /\ pc = "spans"
    /\ LET r == loadSpans(doc.spans, token_dict)
       IN  /\ spans' = r.spans
           /\ span_dict' = r.dict
           /\ attrs' = attrs \cup {"spans"}
                          \cup (IF r.dictSet THEN {"_span_dict"} ELSE {})
           /\ openHandles' = openHandles \cup
                  (IF doc.spans.present THEN WithLeaves("spans") ELSE {})
           /\ Step("spans", r.raised)
    /\ UNCHANGED <<tokens, token_dict, mentions, mention_dict, entities, text>>

LoadMentions ==
    /\ pc = "mentions"
    /\ LET r == loadMentions(doc.objects, span_dict)
       IN  /\ mentions' = r.mentions
           /\ mention_dict' = r.dict
           /\ attrs' = attrs \cup {"mentions"}
                          \cup (IF r.dictSet THEN {"_mention_dict"} ELSE {})
           /\ openHandles' = openHandles \cup
                  (IF doc.objects.present THEN WithLeaves("objects") ELSE {})
           /\ Step("mentions", r.raised)
    /\ UNCHANGED <<tokens, token_dict, spans, span_dict, entities, text>>

\* The handle of the probing open() is bound to no name: whether it is
\* closed when the call returns is left to the interpreter's collector.
LoadCoreference ==
    /\ pc = "coreference"
    /\ LET r == loadCoreference(doc.coref, mention_dict)
       IN  /\ entities' = r.entities
           /\ attrs' = attrs \cup {"entities"}
           /\ \E collected \in BOOLEAN :
                openHandles' = openHandles \cup
                    (IF r.probed
                     THEN (IF collected THEN {} ELSE {CorefProbeHandle})
                              \cup WithLeaves(CorefWithHandle)
                     ELSE {})
           /\ Step("coreference", r.raised)
    /\ UNCHANGED <<tokens, token_dict, spans, span_dict, mentions, mention_dict,
                   text>>

LoadText ==
    /\ pc = "text"
    /\ LET r == loadText(doc.txt)
       IN  /\ text' = r.text
           /\ attrs' = attrs \cup (IF r.raised = "none" THEN {"text"} ELSE {})
           /\ openHandles' = openHandles \cup
                  (IF doc.txt.present THEN WithLeaves("txt") ELSE {})
           /\ Step("text", r.raised)
    /\ UNCHANGED <<tokens, token_dict, spans, span_dict, mentions, mention_dict,
                   entities>>

\* self.name = name
SetName ==
    /\ pc = "name"
    /\ attrs' = attrs \cup {"name"}
    /\ pc' = "done"
    /\ UNCHANGED <<doc, tokens, token_dict, spans, span_dict, mentions,
                   mention_dict, entities, text, error, failed, trace,
                   openHandles, logged, propagated, result>>

\* except Exception as e: print(...); print(e)
HandleException ==
    /\ pc = "except"
    /\ logged' = Catches(error)
    /\ propagated' = ~Catches(error)
    /\ pc' = "done"
    /\ UNCHANGED <<doc, attrs, tokens, token_dict, spans, span_dict, mentions,
                   mention_dict, entities, text, error, failed, trace,
                   openHandles, result>>

\* A caller's makeTokenSets(is_locorg_allowed) on the constructed object.
MakeTokenSets ==
    /\ pc = "done"
    /\ \E is_locorg_allowed \in BOOLEAN :
         LET r == IF "mentions" \in attrs
                  THEN makeTokenSets(mentions, is_locorg_allowed)
                  ELSE [raised |-> "AttributeError", res |-> EmptyDict]
         IN  result' = [called |-> TRUE, flag |-> is_locorg_allowed,
                        raised |-> r.raised, res |-> r.res]
    /\ UNCHANGED <<doc, pc, attrs, tokens, token_dict, spans, span_dict,
                   mentions, mention_dict, entities, text, error, failed,
                   trace, openHandles, logged, propagated>>

Next ==
    \/ LoadTokens
    \/ LoadSpans
    \/ LoadMentions
    \/ LoadCoreference
    \/ LoadText
    \/ SetName
    \/ HandleException
    \/ MakeTokenSets

Spec == Init /\ [][Next]_vars

\* ------------------------------------------------------------ properties
Ran(stage) == stage \in Range(trace)
Succeeded(stage) == Ran(stage) /\ failed # stage
TokenOids == {tokens[i].oid : i \in 1..Len(tokens)}

\* A line of a csv file that holds a record: something besides its terminator.
HoldsRow(line) == \E i \in 1..Len(line) : line[i] \notin {NL, CR}
\* A line of the objects file that holds a record once its comment is cut.
HoldsMention(line) ==
    /\ HoldsRow(line)
    /\ ~(line[1] = COMMENT_SEPARATOR /\ line[2] \in {SP, NL, CR})

RowCount(lines) == Cardinality({i \in 1..Len(lines) : HoldsRow(lines[i])})
MentionCount(lines) == Cardinality({i \in 1..Len(lines) : HoldsMention(lines[i])})
NonEmptyCount(lines) == Cardinality({i \in 1..Len(lines) : lines[i] # <<>>})

\* The maximal runs of non-blank lines of the coreference file, as pairs
\* <<first, last>>, and the entity each one stands for.
BlankLine(line) == \A i \in 1..Len(line) : line[i] \in Whitespace
Runs(lines) ==
    {r \in (1..Len(lines)) \X (1..Len(lines)) :
        /\ r[1] <= r[2]
        /\ \A i \in r[1]..r[2] : ~BlankLine(lines[i])
        /\ r[1] = 1 \/ BlankLine(lines[r[1] - 1])
        /\ r[2] = Len(lines) \/ BlankLine(lines[r[2] + 1])}
RunAt(lines, k) ==
    CHOOSE r \in Runs(lines) :
        Cardinality({q \in Runs(lines) : q[1] < r[1]}) = k - 1
Trimmed(line) ==
    LET solid == {i \in 1..Len(line) : line[i] \notin Whitespace}
        first == CHOOSE i \in solid : \A j \in solid : i <= j
        last == CHOOSE i \in solid : \A j \in solid : j <= i
    IN  SubSeq(line, first, last)
EntityOfRun(lines, r, e) ==
    /\ e.mode = IF r[2] = Len(lines) THEN "test" ELSE "standard"
    /\ e.buffer = Concat([i \in 1..(r[2] - r[1] + 1) |->
                             Trimmed(lines[r[1] + i - 1]) \o <<NL>>])

StageComplete(stage) ==
    CASE stage = "tokens" ->
            /\ {"tokens", "_token_dict"} \subseteq attrs
            /\ Len(tokens) = RowCount(doc.tokens.lines)
      [] stage = "spans" ->
            /\ {"spans", "_span_dict"} \subseteq attrs
            /\ Len(spans) = NonEmptyCount(doc.spans.lines)
      [] stage = "mentions" ->
            /\ {"mentions", "_mention_dict"} \subseteq attrs
            /\ Len(mentions) = MentionCount(doc.objects.lines)
      [] stage = "coreference" ->
            /\ "entities" \in attrs
            /\ Len(entities) = Cardinality(Runs(doc.coref.lines))
      [] OTHER ->
            /\ "text" \in attrs
            /\ text = Concat(doc.txt.lines)
StageAttrs(stage) ==
    CASE stage = "tokens" -> {"tokens", "_token_dict"}
      [] stage = "spans" -> {"spans", "_span_dict"}
      [] stage = "mentions" -> {"mentions", "_mention_dict"}
      [] stage = "coreference" -> {"entities"}
      [] OTHER -> {"text"}

\* The token list is in start order, and chained by prev/next in list order.
TokensOrdered ==
    \A i, j \in 1..Len(tokens) : i < j => tokens[i].start <= tokens[j].start
TokensChained ==
    \A i \in 1..Len(tokens) :
        /\ tokens[i].prev = IF i = 1 THEN None ELSE tokens[i - 1].oid
        /\ tokens[i].next = IF i = Len(tokens) THEN None ELSE tokens[i + 1].oid
OneWithout(side) ==
    Cardinality({i \in 1..Len(tokens) : tokens[i][side] = None}) = 1
\* The fields after the separator of a spans line.
RightFields(line) ==
    NonEmpty(Split(Split(line, SPAN_FILE_SEPARATOR)[2], DEFAULT_DELIMITER))
\* The mentions carrying one of the tags, and a collection holding their sets.
Tagged(tags) == {i \in 1..Len(mentions) : mentions[i].tag \in tags}
HoldsSetsOf(sets, tags, tag) ==
    /\ Len(sets) = Cardinality(Tagged(tags))
    /\ \A k \in 1..Len(sets) : sets[k].tag = tag
    /\ \A i \in Tagged(tags) :
          \E k \in 1..Len(sets) : sets[k].tokens = MentionTokens(mentions[i].spans)
\* A spans file without the lines that hold only a terminator.
WithoutBlank(lines) == SelectSeq(lines, LAMBDA l : l # <<NL>>)

\* C1: the constructor never lets an exception out; the stages run in the
\* order tokens, spans, mentions, coreference, text; once it has returned,
\* either all five stages succeeded and name is set, or stage k failed, the
\* stages before k hold their complete result, no stage after k ran (its
\* fields are unset) and name is not set.
C1_LoadStopsAtFirstFailure ==
    /\ ~propagated
    /\ trace = SubSeq(Stages, 1, Len(trace))
    /\ pc = "done" =>
        /\ ("name" \in attrs) <=> (failed = "none")
        /\ failed = "none" =>
              /\ trace = Stages
              /\ \A j \in 1..Len(Stages) : StageComplete(Stages[j])
        /\ failed # "none" =>
              /\ Len(trace) = StageIndex(failed)
              /\ logged
              /\ \A j \in 1..(StageIndex(failed) - 1) : StageComplete(Stages[j])
              /\ \A j \in (StageIndex(failed) + 1)..Len(Stages) :
                    StageAttrs(Stages[j]) \cap attrs = {}

C1_Witness ==
    /\ pc = "done"
    /\ failed = "mentions"
    /\ Len(tokens) = 3 /\ Len(spans) = 2
    /\ "name" \notin attrs /\ "entities" \notin attrs

\* C2: when a line of the tokens, spans or objects file is malformed, the
\* stage's collection holds nothing of the file once the constructor has
\* returned: never the records that preceded the bad line.
C2_StageAllOrNothing ==
    (pc = "done" /\ failed \in {"tokens", "spans", "mentions"}
        /\ error # "FileNotFoundError") =>
        CASE failed = "tokens" -> tokens = <<>>
          [] failed = "spans" -> spans = <<>>
          [] OTHER -> mentions = <<>>

\* C3 (as claimed): after loadTokens of a well-formed file the tokens are
\* ordered by start offset, prev/next chain them in that order, exactly one
\* token has no prev and exactly one has no next.
C3_ChainWithOneHeadAndTail ==
    Succeeded("tokens") =>
        TokensOrdered /\ TokensChained /\ OneWithout("prev") /\ OneWithout("next")

\* C3 (amended): after loadTokens of a well-formed file the tokens are
\* ordered by start offset and chained by prev/next in that order; when the
\* file holds at least one record exactly one token has no prev and exactly
\* one has no next, and when it holds none the list is empty.
C3_ChainOverNonEmptyFile ==
    Succeeded("tokens") =>
        /\ TokensOrdered
        /\ TokensChained
        /\ Len(tokens) = RowCount(doc.tokens.lines)
        /\ Len(tokens) >= 1 => OneWithout("prev") /\ OneWithout("next")

C3_Witness ==
    /\ Succeeded("tokens")
    /\ Len(tokens) = 3
    /\ tokens[1].oid = 3 /\ tokens[3].oid = 1
    /\ tokens[1].start < tokens[2].start /\ tokens[2].start < tokens[3].start

\* C4: every span held in spans has exactly its declared ntokens tokens,
\* each a token of the token table, and comes from a line whose right
\* section has exactly 2*ntokens fields; when loadSpans succeeds every
\* non-empty line of the file has produced such a span, so a line with
\* another field count or an unknown token id fails the load.
C4_SpansMatchDeclaredTokens ==
    Ran("spans") =>
        /\ \A i \in 1..Len(spans) :
              LET line == doc.spans.lines[spans[i].oid]
              IN  /\ Len(spans[i].tokens) = spans[i].ntokens
                  /\ Range(spans[i].tokens) \subseteq TokenOids
                  /\ Len(Split(line, SPAN_FILE_SEPARATOR)) = 2
                  /\ Len(RightFields(line)) = 2 * spans[i].ntokens
                  /\ \A k \in 1..spans[i].ntokens :
                        \E t \in 1..Len(tokens) :
                            /\ tokens[t].id = IntParse(RightFields(line)[k])
                            /\ tokens[t].oid = spans[i].tokens[k]
        /\ Succeeded("spans") =>
              \A p \in 1..Len(doc.spans.lines) :
                  doc.spans.lines[p] = <<>> \/ \E i \in 1..Len(spans) : spans[i].oid = p

C4_Witness ==
    /\ Succeeded("spans")
    /\ Len(spans) = 2
    /\ spans[1].ntokens = 2 /\ spans[1].tokens = <<token_dict[2], token_dict[1]>>

\* C5: when the .coref file cannot be opened loadCoreference returns
\* normally with entities == [] and the load goes on with the text stage.
C5_MissingCorefIsEmpty ==
    (Ran("coreference") /\ ~doc.coref.present) =>
        /\ entities = <<>>
        /\ "entities" \in attrs
        /\ failed # "coreference"
        /\ pc \in {"text", "name", "except", "done"}
        /\ pc # "text" => Ran("text")

C5_Witness ==
    /\ ~doc.coref.present
    /\ pc = "done"
    /\ "name" \in attrs
    /\ entities = <<>>

\* C6: makeTokenSets(False) returns a mapping without a 'locorg' key whose
\* 'loc' collection holds, tagged 'loc', the set of every mention tagged
\* 'loc' or 'locorg'; makeTokenSets(True) keeps the sets of the mentions
\* tagged 'locorg' under 'locorg'; neither raises while every tag is one of
\* org, per, loc, locorg.
C6_LocorgFoldedIntoLoc ==
    (result.called /\ "mentions" \in attrs) =>
        /\ Tagged({ORG, PER, LOC, LOCORG}) = 1..Len(mentions)
              => result.raised = "none"
        /\ (result.raised = "none" /\ ~result.flag) =>
              /\ LOCORG \notin DOMAIN result.res
              /\ HoldsSetsOf(result.res[LOC], {LOC, LOCORG}, LOC)
        /\ (result.raised = "none" /\ result.flag) =>
              /\ HoldsSetsOf(result.res[LOCORG], {LOCORG}, LOCORG)
              /\ HoldsSetsOf(result.res[LOC], {LOC}, LOC)

C6_Witness ==
    /\ result.called /\ ~result.flag /\ result.raised = "none"
    /\ Tagged({LOCORG}) # {}
    /\ Tagged({LOC}) # {}
    /\ Len(result.res[LOC]) = 2

\* C7: for a present coreference file the entities are, in file order, one
\* per maximal run of non-blank lines (blank once spaces, tabs and line
\* ends are trimmed): built in standard mode when a blank line ends the run
\* and in test mode only when the run reaches the end of the file; when a
\* block fails to resolve, the entities are those of the runs before it.
C7_OneEntityPerBlock ==
    (Ran("coreference") /\ doc.coref.present) =>
        LET lines == doc.coref.lines
        IN  /\ Len(entities) <= Cardinality(Runs(lines))
            /\ Succeeded("coreference") =>
                  Len(entities) = Cardinality(Runs(lines))
            /\ \A k \in 1..Len(entities) :
                  EntityOfRun(lines, RunAt(lines, k), entities[k])

C7_Witness ==
    /\ Succeeded("coreference")
    /\ Len(doc.coref.lines) = 4
    /\ BlankLine(doc.coref.lines[2]) /\ BlankLine(doc.coref.lines[3])
    /\ doc.coref.lines[2] # <<NL>>
    /\ Len(entities) = 2
    /\ entities[1].mode = "standard" /\ entities[2].mode = "test"

\* C8: no handle opened by a loader is still open once the loader has
\* returned or raised.
C8_HandlesReleased == openHandles = {}

\* C9: a line of the spans file that holds only its terminator is skipped:
\* when the other lines load, the file loads and yields their spans.
C9_EmptySpanLinesSkipped ==
    (Ran("spans") /\ doc.spans.present
        /\ WithoutBlank(doc.spans.lines) # <<>>
        /\ \E p \in 1..Len(doc.spans.lines) : doc.spans.lines[p] = <<NL>>
        /\ loadSpans(File(WithoutBlank(doc.spans.lines)), token_dict).raised = "none")
    => /\ failed # "spans"
       /\ Len(spans) = Len(WithoutBlank(doc.spans.lines))

\* C10: the assertion of makeTokenSets holds for every document that loaded
\* successfully, with either value of is_locorg_allowed: no mention has a
\* tag outside org, per, loc, locorg.
C10_AssertionHolds ==
    ("name" \in attrs /\ result.called) => result.raised # "AssertionError"

====
